---- MODULE Spec2Model ----
(***************************************************************************)
(* Model of models/iwae.py: the IWAE module (constructor, encode, decode,  *)
(* reparameterize, forward, loss_function, sample) driven by a caller that *)
(* owns one hidden_dims list object.                                       *)
(*                                                                         *)
(* A tensor is abstracted by its shape and one representative element, a   *)
(* fixed-point number with Scale units per 1.0, plus a finiteness tag      *)
(* (float division can produce inf / nan).  Shape arithmetic, channel      *)
(* checks and the element-wise formulas are those of the code.             *)
(***************************************************************************)
EXTENDS Integers, Sequences, FiniteSets, TLC

\* ------------------------------------------------------------------ bounds
Scale == 1000
MaxModels == 2

\* ------------------------------------------------------- fixed-point reals
Abs(a) == IF a < 0 THEN -a ELSE a

Sign(a) == IF a < 0 THEN -1 ELSE IF a > 0 THEN 1 ELSE 0

\* float division rounds to nearest; the model truncates toward zero
TDiv(a, b) == Sign(a) * Sign(b) * (Abs(a) \div Abs(b))

Mul(a, b) == TDiv(a * b, Scale)

\* e^x for x <= 0: halve the argument until |x| <= 0.5, then a Taylor
\* polynomial, squaring on the way back
RECURSIVE ExpNeg(_)
ExpNeg(x) ==
    IF x < -(Scale \div 2)
    THEN LET h == ExpNeg(TDiv(x, 2)) IN Mul(h, h)
    ELSE LET x2 == Mul(x, x)
             x3 == Mul(x2, x)
             x4 == Mul(x3, x)
         IN  Scale + x + TDiv(x2, 2) + TDiv(x3, 6) + TDiv(x4, 24)

\* torch.exp
Exp(x) == IF x <= 0 THEN ExpNeg(x) ELSE TDiv(Scale * Scale, ExpNeg(-x))

\* ----------------------------------------------------------------- tensors
Tensor(shape, v) == [shape |-> shape, v |-> v, k |-> "fin"]

Ok(ts) == [st |-> "ok", val |-> ts]

Raise(e) == [st |-> e, val |-> <<>>]

RECURSIVE Prod(_)
Prod(s) == IF s = <<>> THEN 1 ELSE Head(s) * Prod(Tail(s))

RECURSIVE Reverse(_)
Reverse(s) == IF s = <<>> THEN <<>> ELSE Append(Reverse(Tail(s)), Head(s))

\* ------------------------------------------------------------ torch layers
\* nn.Conv2d(cin, cout, kernel_size, stride, padding)
Conv2d(l, t) ==
    IF Len(t.shape) # 4 \/ t.shape[2] # l.cin THEN Raise("RuntimeError")
    ELSE IF t.shape[3] + 2 * l.p < l.ks \/ t.shape[4] + 2 * l.p < l.ks
    THEN Raise("RuntimeError")
    ELSE Ok(<<[t EXCEPT
                !.shape = <<t.shape[1], l.cout,
                            ((t.shape[3] + 2 * l.p - l.ks) \div l.s) + 1,
                            ((t.shape[4] + 2 * l.p - l.ks) \div l.s) + 1>>,
                !.v = Mul(l.w, t.v) + l.b]>>)

\* nn.ConvTranspose2d(cin, cout, kernel_size, stride, padding, output_padding)
ConvTranspose2d(l, t) ==
    IF Len(t.shape) # 4 \/ t.shape[2] # l.cin THEN Raise("RuntimeError")
    ELSE Ok(<<[t EXCEPT
                !.shape = <<t.shape[1], l.cout,
                            (t.shape[3] - 1) * l.s - 2 * l.p + l.ks + l.op,
                            (t.shape[4] - 1) * l.s - 2 * l.p + l.ks + l.op>>,
                !.v = Mul(l.w, t.v) + l.b]>>)

\* nn.BatchNorm2d(c) of a module in training mode (the state after
\* construction): shape-preserving; the representative element is carried
\* through unchanged
BatchNorm2d(l, t) ==
    IF Len(t.shape) # 4 \/ t.shape[2] # l.cin THEN Raise("RuntimeError")
    ELSE IF t.shape[1] * t.shape[3] * t.shape[4] <= 1 THEN Raise("ValueError")
    ELSE Ok(<<t>>)

\* nn.LeakyReLU(), negative_slope = 0.01
LeakyReLU(l, t) == Ok(<<[t EXCEPT !.v = IF t.v >= 0 THEN t.v ELSE TDiv(t.v, 100)]>>)

TanhIdentity(l, t) == Ok(<<t>>)

\* nn.Tanh(): sign(x) * (1 - e^(-2|x|)) / (1 + e^(-2|x|))
Tanh(l, t) ==
    LET e == ExpNeg(-2 * Abs(t.v))
    IN  Ok(<<[t EXCEPT !.v = Sign(t.v) * TDiv((Scale - e) * Scale, Scale + e)]>>)

\* nn.Linear(cin, cout)
Linear(l, t) ==
    IF Len(t.shape) = 0 \/ t.shape[Len(t.shape)] # l.cin THEN Raise("RuntimeError")
    ELSE Ok(<<[t EXCEPT
                !.shape = [t.shape EXCEPT ![Len(t.shape)] = l.cout],
                !.v = Mul(l.w, t.v) + l.b]>>)

Apply(l, t) ==
    CASE l.kind = "Conv2d" -> Conv2d(l, t)
      [] l.kind = "ConvTranspose2d" -> ConvTranspose2d(l, t)
      [] l.kind = "BatchNorm2d" -> BatchNorm2d(l, t)
      [] l.kind = "LeakyReLU" -> LeakyReLU(l, t)
      [] l.kind = "Tanh" -> Tanh(l, t)
      [] l.kind = "Linear" -> Linear(l, t)

\* nn.Sequential(*modules): the layers in order, an exception ends the call
RECURSIVE Sequential(_, _), Through(_, _)
Sequential(layers, t) ==
    IF layers = <<>> THEN Ok(<<t>>)
    ELSE Through(Tail(layers), Apply(Head(layers), t))

\* result = module(result), unless an earlier statement raised
Through(layers, r) == IF r.st = "ok" THEN Sequential(layers, r.val[1]) ELSE r

FlattenAll(t, start_dim) == Ok(<<[t EXCEPT !.shape = <<Prod(t.shape)>>]>>)

\* torch.flatten(result, start_dim=1) / Tensor.flatten(1)
flatten(t, start_dim) ==
    IF Len(t.shape) <= start_dim THEN Ok(<<t>>)
    ELSE Ok(<<[t EXCEPT !.shape =
                SubSeq(t.shape, 1, start_dim)
                    \o <<Prod(SubSeq(t.shape, start_dim + 1, Len(t.shape)))>>]>>)

\* Tensor.view(-1, c, h, w)
view(t, c, h, w) ==
    IF Prod(t.shape) = 0 \/ Prod(t.shape) % (c * h * w) # 0 THEN Raise("RuntimeError")
    ELSE Ok(<<[t EXCEPT !.shape = <<Prod(t.shape) \div (c * h * w), c, h, w>>]>>)

Layer(kind, cin, cout, ks, s, p, op, w, b) ==
    [kind |-> kind, cin |-> cin, cout |-> cout, ks |-> ks, s |-> s, p |-> p,
     op |-> op, w |-> w, b |-> b]

\* ------------------------------------------------------------ IWAE module
\* Python's None / a list object passed for hidden_dims
None == [isNone |-> TRUE, list |-> <<>>]

List(l) == [isNone |-> FALSE, list |-> l]

\* the encoder loop of __init__: one Conv2d + BatchNorm2d + LeakyReLU block
\* per h_dim, in_channels being rebound to h_dim after each block
RECURSIVE EncoderModules(_, _, _)
EncoderModules(in_channels, dims, init) ==
    IF dims = <<>> THEN <<>>
    ELSE <<Layer("Conv2d", in_channels, Head(dims), 3, 2, 1, 0, init.w, 0),
           Layer("BatchNorm2d", Head(dims), Head(dims), 0, 0, 0, 0, 0, 0),
           Layer("LeakyReLU", 0, 0, 0, 0, 0, 0, 0, 0)>>
         \o EncoderModules(Head(dims), Tail(dims), init)

\* the decoder loop of __init__: for i in range(len(hidden_dims) - 1)
RECURSIVE DecoderModules(_, _)
DecoderModules(dims, init) ==
    IF Len(dims) <= 1 THEN <<>>
    ELSE <<Layer("ConvTranspose2d", dims[1], dims[2], 3, 2, 1, 1, init.w, 0),
           Layer("BatchNorm2d", dims[2], dims[2], 0, 0, 0, 0, 0, 0),
           Layer("LeakyReLU", 0, 0, 0, 0, 0, 0, 0, 0)>>
         \o DecoderModules(Tail(dims), init)

FinalLayer(c, init) ==
    <<Layer("ConvTranspose2d", c, c, 3, 2, 1, 1, init.w, 0),
      Layer("BatchNorm2d", c, c, 0, 0, 0, 0, 0, 0),
      Layer("LeakyReLU", 0, 0, 0, 0, 0, 0, 0, 0),
      Layer("Conv2d", c, 3, 3, 1, 1, 0, init.w, 0),
      Layer("Tanh", 0, 0, 0, 0, 0, 0, 0, 0)>>

DefaultHiddenDims == <<32, 64, 128, 256, 512>>

\* IWAE.__init__(in_channels, latent_dim, hidden_dims, num_samples).
\* init is the random initialisation of the learned parameters.  The result
\* carries the list object as the call leaves it: hidden_dims.reverse()
\* reverses in place the list the caller passed.
IWAE_init(in_channels, latent_dim, hidden_dims, num_samples, init) ==
    LET dims == IF hidden_dims.isNone THEN DefaultHiddenDims ELSE hidden_dims.list
        rev  == Reverse(dims)
    IN  IF dims = <<>>
        THEN [st |-> "IndexError", self |-> <<>>, hidden_dims |-> hidden_dims]
        ELSE [st |-> "ok",
              self |-> [latent_dim |-> latent_dim,
                        num_samples |-> num_samples,
                        encoder |-> EncoderModules(in_channels, dims, init),
                        fc_mu |-> Layer("Linear", dims[Len(dims)] * 4, latent_dim,
                                        0, 0, 0, 0, init.w, init.b_mu),
                        fc_var |-> Layer("Linear", dims[Len(dims)] * 4, latent_dim,
                                         0, 0, 0, 0, init.w, init.b_var),
                        decoder_input |-> Layer("Linear", latent_dim,
                                                dims[Len(dims)] * 4,
                                                0, 0, 0, 0, init.w, 0),
                        decoder |-> DecoderModules(rev, init),
                        final_layer |-> FinalLayer(rev[Len(rev)], init)],
              hidden_dims |-> IF hidden_dims.isNone THEN hidden_dims ELSE List(rev)]

\* lines 87-94 of IWAE.encode: flatten, the two linear heads, the returned list
EncodeHeads(self, r) ==
    IF r.st # "ok" THEN r
    ELSE IF Linear(self.fc_mu, flatten(r.val[1], 1).val[1]).st # "ok"
    THEN Linear(self.fc_mu, flatten(r.val[1], 1).val[1])
    ELSE IF Linear(self.fc_var, flatten(r.val[1], 1).val[1]).st # "ok"
    THEN Linear(self.fc_var, flatten(r.val[1], 1).val[1])
    ELSE Ok(<<Linear(self.fc_mu, flatten(r.val[1], 1).val[1]).val[1],
              Linear(self.fc_var, flatten(r.val[1], 1).val[1]).val[1]>>)

\* IWAE.encode
encode(self, input) == EncodeHeads(self, Sequential(self.encoder, input))

\* line 98 of IWAE.decode: result.view(-1, 512, 2, 2)
DecodeView(r) == IF r.st = "ok" THEN view(r.val[1], 512, 2, 2) ELSE r

\* IWAE.decode
decode(self, z) ==
    Through(self.final_layer,
            Through(self.decoder, DecodeView(Linear(self.decoder_input, z))))

ReparameterizeNumSamples(self, mu, logvar, noise) ==
    LET std == Exp(TDiv(logvar.v, 2))
    IN  [mu EXCEPT !.shape = <<mu.shape[1] * self.num_samples, mu.shape[2]>>,
                   !.v = Mul(noise, std) + mu.v]

\* IWAE.reparameterize; noise is the value torch.randn_like drew
reparameterize(self, mu, logvar, noise) ==
    LET std == Exp(TDiv(logvar.v, 2))
    IN  [mu EXCEPT !.v = Mul(noise, std) + mu.v]

\* element-wise float division a / b
TrueDiv(a, b) ==
    IF b.v # 0 THEN [a EXCEPT !.v = TDiv(a.v * Scale, b.v)]
    ELSE [a EXCEPT !.v = 0,
                   !.k = IF a.v = 0 THEN "nan" ELSE IF a.v > 0 THEN "inf" ELSE "-inf"]

Call(fn, args, r) == [fn |-> fn, args |-> args, r |-> r]

\* line 119 of IWAE.forward, given mu, log_var = e, z and d = self.decode(z);
\* calls is the sequence of the methods of self that forward called
ForwardReturn(input, e, z, d) ==
    [st |-> d.st,
     val |-> IF d.st # "ok" THEN <<>>
             ELSE <<d.val[1], input, e.val[1], e.val[2], z,
                    TrueDiv([z EXCEPT !.v = z.v - e.val[1].v], e.val[2])>>,
     calls |-> <<Call("encode", <<input>>, e),
                 Call("reparameterize", <<e.val[1], e.val[2]>>, Ok(<<z>>)),
                 Call("decode", <<z>>, d)>>]

ForwardDecodeMu(self, input, e, z) == ForwardReturn(input, e, z, decode(self, e.val[1]))

\* lines 118-119 of IWAE.forward, given mu, log_var = e and z
ForwardDecode(self, input, e, z) == ForwardReturn(input, e, z, decode(self, z))

\* lines 117-119 of IWAE.forward, given e = self.encode(input)
ForwardSample(self, input, noise, e) ==
    IF e.st # "ok"
    THEN [st |-> e.st, val |-> <<>>, calls |-> <<Call("encode", <<input>>, e)>>]
    ELSE ForwardDecode(self, input, e,
                       reparameterize(self, e.val[1], e.val[2], noise))

\* IWAE.forward
forward(self, input, noise) == ForwardSample(self, input, noise, encode(self, input))

\* shape of an element-wise binary operation (broadcasting), <<-1>> when the
\* shapes do not broadcast
RECURSIVE PadLeft(_, _)
PadLeft(s, n) == IF Len(s) >= n THEN s ELSE PadLeft(<<1>> \o s, n)

BroadcastShape(s1, s2) ==
    LET n == IF Len(s1) >= Len(s2) THEN Len(s1) ELSE Len(s2)
        a == PadLeft(s1, n)
        b == PadLeft(s2, n)
    IN  IF \A i \in 1..n : a[i] = b[i] \/ a[i] = 1 \/ b[i] = 1
        THEN [i \in 1..n |-> IF a[i] = 1 THEN b[i] ELSE a[i]]
        ELSE <<-1>>

\* names bound in the frame of loss_function when line 146 is evaluated
LossLocals ==
    {"self", "args", "kwargs", "recons", "input", "mu", "log_var", "z", "eps",
     "kld_weight", "log_p_x_z", "pi", "E_log_q_z", "E_log_p_z"}

\* names bound at module level: the imports and the class
ModuleGlobals == {"torch", "BaseVAE", "nn", "F", "np", "IWAE", "List", "Tensor"}

\* IWAE.loss_function(*args, **kwargs).  Lines 139-143 are followed on the
\* shapes; line 146 reads the name recons_loss.
loss_function(self, args, kwargs) ==
    IF Len(args) < 6 THEN [st |-> "IndexError", keys |-> {}, val |-> <<>>, weight |-> <<>>]
    ELSE IF "M_N" \notin DOMAIN kwargs
    THEN [st |-> "KeyError", keys |-> {}, val |-> <<>>, weight |-> <<>>]
    ELSE
    LET recons == args[1]
        input == args[2]
        mu == args[3]
        log_var == args[4]
        z == args[5]
        eps == args[6]
        diff == BroadcastShape(recons.shape, input.shape)
        log_p_x_z == <<diff[1]>>
        q == BroadcastShape(eps.shape, log_var.shape)
        E_log_q_z == <<q[1]>>
        E_log_p_z == <<z.shape[1]>>
        lw == BroadcastShape(BroadcastShape(log_p_x_z, E_log_p_z), E_log_q_z)
    IN  IF diff = <<-1>> \/ q = <<-1>>
        THEN [st |-> "RuntimeError", keys |-> {}, val |-> <<>>, weight |-> <<>>]
        ELSE IF "recons_loss" \notin LossLocals \cup ModuleGlobals
        THEN [st |-> "NameError", keys |-> {}, val |-> <<>>, weight |-> <<>>]
        ELSE IF lw = <<-1>>
        THEN [st |-> "RuntimeError", keys |-> {}, val |-> <<>>, weight |-> <<>>]
        ELSE [st |-> "ok",
              keys |-> {"loss", "Reconstruction Loss", "KLD"},
              val |-> <<Tensor(<<>>, 0), Tensor(<<>>, 0), Tensor(<<>>, 0)>>,
              weight |-> [i \in 1..lw[1] |-> TDiv(Scale, lw[1])]]

\* IWAE.sample(batch_size, current_device); noise is the value torch.randn
\* drew, cuda says whether z.cuda(current_device) succeeds and the module's
\* parameters live on that device
sample(self, batch_size, cuda, noise) ==
    LET z == Tensor(<<batch_size, self.latent_dim>>, noise)
    IN  IF ~cuda THEN Raise("RuntimeError") ELSE decode(self, z)

\* the out_channels of the convolutions of a layer list, in order
RECURSIVE Channels(_)
Channels(layers) ==
    IF layers = <<>> THEN <<>>
    ELSE (IF Head(layers).kind \in {"Conv2d", "ConvTranspose2d"}
          THEN <<Head(layers).cout>> ELSE <<>>) \o Channels(Tail(layers))

\* ---------------------------------------------------------------- inputs
CallerLists == {<<>>, <<512>>, <<32, 64>>, <<64, 512>>}

InChannels == {1, 3}

LatentDims == {2}

NumSamples == {1, 5}

\* initial values of the learned parameters
Inits == {[w |-> Scale, b_mu |-> Scale \div 4, b_var |-> -Scale],
          [w |-> -(Scale \div 2), b_mu |-> 0, b_var |-> Scale]}

Batches == {1, 8}

Sizes == {<<4, 4>>, <<8, 8>>, <<2, 8>>, <<64, 64>>}

Values == {Scale}

Noises == {0, 2 * Scale}

Images == {Tensor(<<n, c, hw[1], hw[2]>>, v) :
              n \in Batches, c \in InChannels, hw \in Sizes, v \in Values}

Latents == {Tensor(<<n, d>>, v) : n \in Batches, d \in LatentDims, v \in Noises}

\* ------------------------------------------------------------------ state
VARIABLES
    written,       \* hidden_dims as the caller wrote it
    hidden_dims,   \* the caller's list object
    model,         \* the module constructed last, with its constructor arguments
    built,         \* per construction so far: the channel sequences it built
    last           \* the most recent call and its outcome

vars == <<written, hidden_dims, model, built, last>>

Init ==
    /\ written \in CallerLists
    /\ hidden_dims = written
    /\ model = [ok |-> FALSE]
    /\ built = <<>>
    /\ last = [op |-> "none"]

\* model = IWAE(in_channels, latent_dim, hidden_dims / None, num_samples)
Construct ==
    /\ Len(built) < MaxModels
    /\ \E c \in InChannels, d \in LatentDims, s \in NumSamples, i \in Inits,
          pass \in BOOLEAN :
          LET arg == IF pass THEN List(hidden_dims) ELSE None
              r == IWAE_init(c, d, arg, s, i)
          IN  /\ hidden_dims' = IF pass THEN r.hidden_dims.list ELSE hidden_dims
              /\ model' = IF r.st = "ok"
                          THEN [ok |-> TRUE, self |-> r.self, in_channels |-> c,
                                latent_dim |-> d, num_samples |-> s,
                                hidden_dims |-> IF pass THEN hidden_dims
                                                ELSE DefaultHiddenDims]
                          ELSE model
              /\ built' = IF r.st = "ok"
                          THEN Append(built,
                                      [passed |-> pass,
                                       encoder |-> Channels(r.self.encoder),
                                       decoder |-> Channels(r.self.decoder)])
                          ELSE built
              /\ last' = [op |-> "__init__", st |-> r.st, passed |-> pass]
    /\ UNCHANGED written

Encode ==
    /\ model.ok
    /\ \E x \in Images :
          last' = [op |-> "encode", input |-> x, r |-> encode(model.self, x)]
    /\ UNCHANGED <<written, hidden_dims, model, built>>

Decode ==
    /\ model.ok
    /\ \E z \in Latents :
          last' = [op |-> "decode", input |-> z, r |-> decode(model.self, z)]
    /\ UNCHANGED <<written, hidden_dims, model, built>>

Forward ==
    /\ model.ok
    /\ \E x \in Images, n \in Noises :
          last' = [op |-> "forward", input |-> x, noise |-> n,
                   r |-> forward(model.self, x, n)]
    /\ UNCHANGED <<written, hidden_dims, model, built>>

\* model.loss_function(*model.forward(x), M_N = kld_weight)
LossFunction ==
    /\ model.ok
    /\ last.op = "forward"
    /\ last.r.st = "ok"
    /\ last' = [op |-> "loss_function", args |-> last.r.val,
                r |-> loss_function(model.self, last.r.val, [M_N |-> Scale])]
    /\ UNCHANGED <<written, hidden_dims, model, built>>

Sample ==
    /\ model.ok
    /\ \E b \in Batches, cuda \in BOOLEAN, n \in Noises :
          last' = [op |-> "sample", batch_size |-> b, noise |-> n,
                   r |-> sample(model.self, b, cuda, n)]
    /\ UNCHANGED <<written, hidden_dims, model, built>>

Next == Construct \/ Encode \/ Decode \/ Forward \/ LossFunction \/ Sample

Spec == Init /\ [][Next]_vars

\* ----------------------------------------------------------------- claims
Returned(ops) == last.op \in ops /\ last.r.st = "ok"

\* n halved k times, rounding up: the spatial size after k stride-2 blocks
RECURSIVE Halved(_, _)
Halved(n, k) == IF k = 0 THEN n ELSE Halved((n + 1) \div 2, k - 1)

RECURSIVE Pow2(_)
Pow2(k) == IF k = 0 THEN 1 ELSE 2 * Pow2(k - 1)

RECURSIVE SumSeq(_)
SumSeq(s) == IF s = <<>> THEN 0 ELSE Head(s) + SumSeq(Tail(s))

\* C1: loss_function called on the six outputs of forward with M_N returns
\* a dict with exactly the keys loss, Reconstruction Loss and KLD, loss
\* being a scalar, and never ends in an error.
C1_LossReturnsDict ==
    last.op = "loss_function" =>
        /\ last.r.st = "ok"
        /\ last.r.keys = {"loss", "Reconstruction Loss", "KLD"}
        /\ last.r.val[1].shape = <<>>

\* C2 as stated: for every input batch [N, in_channels, H, W] encode
\* succeeds and returns two tensors of shape [N, latent_dim].
C2_EncodeEveryInput ==
    (last.op = "encode" /\ last.input.shape[2] = model.in_channels) =>
        /\ last.r.st = "ok"
        /\ Len(last.r.val) = 2
        /\ \A i \in 1..2 :
              last.r.val[i].shape = <<last.input.shape[1], model.latent_dim>>

ReducesToFour(x) ==
    LET k == Len(model.hidden_dims)
    IN  Halved(x.shape[3], k) * Halved(x.shape[4], k) = 4

\* C2 amended: for every constructed model and every input batch
\* [N, in_channels, H, W], N >= 1, whose spatial size the encoder's stride-2
\* blocks reduce to four positions, encode succeeds and returns exactly two
\* tensors mu and log_var of shape [N, latent_dim].
C2_EncodeFittingInput ==
    (/\ last.op = "encode"
     /\ last.input.shape[2] = model.in_channels
     /\ last.input.shape[1] >= 1
     /\ ReducesToFour(last.input)) =>
        /\ last.r.st = "ok"
        /\ Len(last.r.val) = 2
        /\ \A i \in 1..2 :
              last.r.val[i].shape = <<last.input.shape[1], model.latent_dim>>

C2_Witness ==
    /\ Returned({"encode"})
    /\ last.input.shape[2] = model.in_channels
    /\ last.input.shape[1] > 1
    /\ ReducesToFour(last.input)
    /\ last.input.shape[3] # last.input.shape[4]

\* C3: the channel dimension of decode(z) equals the in_channels the model
\* was constructed with.
C3_DecodeChannels ==
    Returned({"decode"}) => last.r.val[1].shape[2] = model.in_channels

\* C4: forward returns six elements: decode(z), the input unchanged, the
\* (mu, log_var) pair of encode on that input, z = reparameterize(mu,
\* log_var), and the noise ratio, decode being applied to that same z.
C4_ForwardTuple ==
    Returned({"forward"}) =>
        LET out == last.r.val
            calls == last.r.calls
        IN  /\ Len(out) = 6
            /\ out[2] = last.input
            /\ <<out[3], out[4]>> = encode(model.self, last.input).val
            /\ out[5] = reparameterize(model.self, out[3], out[4], last.noise)
            /\ out[1] = decode(model.self, out[5]).val[1]
            /\ Len(calls) = 3
            /\ calls[1] = Call("encode", <<out[2]>>, Ok(<<out[3], out[4]>>))
            /\ calls[2] = Call("reparameterize", <<out[3], out[4]>>, Ok(<<out[5]>>))
            /\ calls[3] = Call("decode", <<out[5]>>, Ok(<<out[1]>>))

C4_Witness ==
    /\ Returned({"forward"})
    /\ last.r.val[5].v # last.r.val[3].v
    /\ last.r.val[1] # decode(model.self, last.r.val[3]).val[1]

\* C5: the importance weights of loss_function are one scalar per batch
\* element, non-negative, and sum to 1 over the batch.
C5_WeightsNormalized ==
    last.op = "loss_function" =>
        /\ Len(last.r.weight) = last.args[1].shape[1]
        /\ \A i \in 1..Len(last.r.weight) : last.r.weight[i] >= 0
        /\ Abs(SumSeq(last.r.weight) - Scale) <= Len(last.r.weight)

\* C6: every element returned by decode (hence the first element of forward
\* and the result of sample) lies in [-1, 1].
C6_ReconstructionBounded ==
    Returned({"decode", "forward", "sample"}) =>
        /\ last.r.val[1].k = "fin"
        /\ -Scale <= last.r.val[1].v
        /\ last.r.val[1].v <= Scale

C6_Witness ==
    /\ Returned({"decode"})
    /\ last.input.v > Scale
    /\ last.r.val[1].v > Scale \div 2

\* C7: for hidden_dims of length k >= 1 and an input [N, C, 2^(k+1), 2^(k+1)]
\* the reconstruction returned by forward has batch size N and the spatial
\* size of the input.
C7_DecoderMirrorsEncoder ==
    LET k == Len(model.hidden_dims)
        x == last.input
    IN  (/\ last.op = "forward"
         /\ x.shape[2] = model.in_channels
         /\ x.shape[3] = Pow2(k + 1)
         /\ x.shape[4] = Pow2(k + 1)) =>
            /\ last.r.st = "ok"
            /\ last.r.val[1].shape[1] = x.shape[1]
            /\ last.r.val[1].shape[3] = x.shape[3]
            /\ last.r.val[1].shape[4] = x.shape[4]

WithNumSamples(self, s) == [self EXCEPT !.num_samples = s]

\* C8: forward calls reparameterize once and produces one latent vector per
\* input image, z of shape [N, latent_dim]; num_samples has no effect on any
\* output of encode, decode, forward or loss_function.
C8_SingleDraw ==
    /\ Returned({"forward"}) =>
          /\ Cardinality({i \in 1..Len(last.r.calls) :
                            last.r.calls[i].fn = "reparameterize"}) = 1
          /\ last.r.val[5].shape = <<last.input.shape[1], model.latent_dim>>
    /\ \A s \in NumSamples :
          /\ last.op = "forward" =>
                forward(WithNumSamples(model.self, s), last.input, last.noise) = last.r
          /\ last.op = "encode" =>
                encode(WithNumSamples(model.self, s), last.input) = last.r
          /\ last.op = "decode" =>
                decode(WithNumSamples(model.self, s), last.input) = last.r
          /\ last.op = "loss_function" =>
                loss_function(WithNumSamples(model.self, s), last.args,
                              [M_N |-> Scale]) = last.r

C8_Witness ==
    /\ Returned({"forward"})
    /\ model.num_samples > 1
    /\ last.input.shape[1] > 1

\* C9: the sixth element eps of forward is the noise reparameterize used:
\* z = mu + eps * exp(0.5 * log_var), and eps is defined for every log_var,
\* log_var = 0 included.
C9_EpsIsNoise ==
    Returned({"forward"}) =>
        LET mu == last.r.val[3]
            log_var == last.r.val[4]
            z == last.r.val[5]
            eps == last.r.val[6]
        IN  /\ eps.k = "fin"
            /\ Abs(z.v - (mu.v + Mul(eps.v, Exp(TDiv(log_var.v, 2))))) <= 2

\* C10: constructing an IWAE leaves the caller's hidden_dims list unchanged,
\* and every model constructed from it has the same encoder and decoder
\* channel sequences, the encoder's in the order the caller wrote.
C10_ListUnchanged ==
    /\ hidden_dims = written
    /\ \A i \in 1..Len(built) :
          built[i].passed =>
              /\ built[i].encoder = written
              /\ \A j \in 1..Len(built) :
                    built[j].passed => built[j].decoder = built[i].decoder
====
